---- MODULE Spec2Model ----
(***************************************************************************)
(* Model of the message debounce/aggregation engine                        *)
(* (src/src/handlers/message.py, MessageHandler) and of the idle           *)
(* re-engagement scheduler (src/src/handlers/autosend.py, AutoSendHandler) *)
(* together with the inbound entry point (src/src/main.py, ChatBot).       *)
(*                                                                         *)
(* Time is counted in ticks of 0.1 s, the resolution of the jitter         *)
(* tolerance in _process_message_queue.                                    *)
(***************************************************************************)
EXTENDS Integers, Sequences, FiniteSets, TLC

\* ------------------------------------------------------------------ bounds
MaxMsgs == 4
MaxTime == 8

MaxCountdowns == 3
\* messages enqueued in the behaviours checked for liveness
MaxLiveMsgs == 3

\* ------------------------------------------------------- program constants
\* config.behavior.message_queue.timeout, in ticks
QUEUE_TIMEOUT == 3
\* the 0.1 s tolerance of the elapsed-time re-check, in ticks
JITTER == 1
\* Python None for a timer handle
NoTimer == 0
\* absent timestamp prefix of a buffered message
NoPrefix == -1
\* Python None for countdown_end_time
NoTime == -1
WEBLENS_ENABLED == TRUE
\* int(config.behavior.auto_message.min_hours * 3600) and
\* int(config.behavior.auto_message.max_hours * 3600), in ticks
min_seconds == 3
max_seconds == 4
\* config.behavior.quiet_time.start and .end, "HH:MM" as <<HH, MM>>
quiet_time_start == <<22, 0>>
quiet_time_end == <<8, 0>>
\* datetime.now().time() when auto_send_message runs, in seconds of the day:
\* 23:30 and 12:00
WallClocks == {84600, 43200}

\* the times of day tried against every configuration of QuietTimes:
\* 07:00, 08:00, 08:00:01, 12:00, 22:00 and 23:30
QuietClocks == {25200, 28800, 28801, 43200, 79200, 84600}
\* configurations of quiet_time: each of start and end is "08:00", "22:00"
\* or the malformed "25:00"
QuietTimes ==
  [start : {<<8, 0>>, <<22, 0>>, <<25, 0>>},
   end : {<<8, 0>>, <<22, 0>>, <<25, 0>>}]

\* ------------------------------------------------------------------ inputs
\* Arguments with which _add_to_message_queue is reached: a private chat
\* (chatName = msg.sender), a group chat, and the outreach message of
\* AutoSendHandler (sender and username "System", is_group False).  Which
\* chats wxauto delivers is not restricted by listen_list here.
Callers ==
  { [chat_id |-> "u1", sender_name |-> "u1", username |-> "u1",
     is_group |-> FALSE, is_image_recognition |-> FALSE],
    [chat_id |-> "g", sender_name |-> "u1", username |-> "u1",
     is_group |-> TRUE, is_image_recognition |-> TRUE] }

\* Arguments with which _get_queue_key is reached for one private chat and
\* one group: the contact u1 and the outreach of AutoSendHandler in the
\* private chat u1 (main.py 110-118, autosend.py 90-96), and two members of
\* the group g who mention the robot
KeyCallers ==
  { [chat_id |-> "u1", sender_name |-> "u1", username |-> "u1",
     is_group |-> FALSE, is_image_recognition |-> FALSE],
    [chat_id |-> "u1", sender_name |-> "System", username |-> "System",
     is_group |-> FALSE, is_image_recognition |-> FALSE],
    [chat_id |-> "g", sender_name |-> "u1", username |-> "u1",
     is_group |-> TRUE, is_image_recognition |-> FALSE],
    [chat_id |-> "g", sender_name |-> "u2", username |-> "u2",
     is_group |-> TRUE, is_image_recognition |-> FALSE] }

\* what detect_urls finds in the text of a message of caller a
UrlLists(a) == IF a.is_group THEN { <<>> } ELSE { <<>>, <<"u", "v">> }

\* the values of config.user.listen_list
ListenLists == { << >>, <<"u1">> }

VARIABLES
  now,             \* time.time(), in ticks
  listen_list,     \* config.user.listen_list, fixed at start-up
  quiet_time,      \* config.behavior.quiet_time: start and end, fixed at
                   \* start-up
  message_queues,  \* self.message_queues : queue_key -> queue_data
  queue_timers,    \* self.queue_timers   : queue_key -> timer handle
  queue_lock,      \* self.queue_lock: NoTimer when free, else the holder
  timers,          \* the threading.Timer objects of the debounce manager
  flush_local,     \* local variables of a running _process_message_queue
  nextMsg,         \* identity of the next message text
  enqueued,        \* history: the calls of _add_to_message_queue, in order
  flushed,         \* history: the popped batches, in order
  deferred,        \* history: timers that took the defer path
  skipped,         \* history: timers that found their key absent
  failed,          \* history: the flushes in which a collaborator failed,
                   \* with what they sent through the chat transport
  countdown_timer,       \* AutoSendHandler.countdown_timer
  is_countdown_running,  \* AutoSendHandler.is_countdown_running
  countdown_end_time,    \* AutoSendHandler.countdown_end_time
  unanswered_count,      \* AutoSendHandler.unanswered_count
  cds,             \* the threading.Timer objects of the idle countdown and
                   \* the position of auto_send_message on their threads
  nextCd,          \* identity of the next countdown timer object
  listener,        \* position of handle_wxauto_message on the listener thread
  escaped,         \* history: countdown threads ended by an exception
  stop_event,      \* main.py stop_event: set by the shutdown path
  stopped          \* history: AutoSendHandler.stop() has returned

queueVars == <<message_queues, queue_timers, queue_lock, timers, flush_local,
               nextMsg, enqueued, flushed, failed, deferred, skipped>>

idleVars == <<listen_list, quiet_time, countdown_timer, is_countdown_running, countdown_end_time,
              unanswered_count, cds, nextCd, listener, escaped, stop_event,
              stopped>>

vars == <<now, queueVars, idleVars>>

\* ---------------------------------------------------------------- helpers
\* variant: the sender takes no part in the key
_get_queue_key_ChatOnly(chat_id, sender_name, is_group) == chat_id

_get_queue_key(chat_id, sender_name, is_group) ==
  IF is_group THEN chat_id \o "_" \o sender_name ELSE chat_id

DropKey(f, k) == [x \in (DOMAIN f) \ {k} |-> f[x]]

PutKey(f, k, v) == [x \in (DOMAIN f) \cup {k} |-> IF x = k THEN v ELSE f[x]]

\* Timer.cancel(): a timer that has not begun its callback never runs it;
\* one that has begun keeps running with the flag set
TimerCancel(ts, t) ==
  IF t \notin DOMAIN ts THEN ts
  ELSE IF ts[t].state = "armed" THEN DropKey(ts, t)
  ELSE [ts EXCEPT ![t].cancelled = TRUE]

\* ------------------------------------------------------------------- Init
\* the state after construction and before main.py:198, for a quiet_time
\* configuration among quiet_times
InitWith(quiet_times) ==
  /\ now = 0
  /\ listen_list \in ListenLists
  /\ quiet_time \in quiet_times
  /\ message_queues = << >>
  /\ queue_timers = << >>
  /\ queue_lock = NoTimer
  /\ timers = << >>
  /\ flush_local = << >>
  /\ nextMsg = 1
  /\ enqueued = << >>
  /\ flushed = << >>
  /\ deferred = {}
  /\ skipped = {}
  /\ failed = << >>
  /\ countdown_timer = NoTimer
  /\ is_countdown_running = FALSE
  /\ countdown_end_time = NoTime
  /\ unanswered_count = 0
  /\ cds = << >>
  /\ nextCd = 1
  /\ listener = [pc |-> "idle", msg |-> << >>]
  /\ escaped = {}
  /\ stop_event = FALSE
  /\ stopped = FALSE

Init == InitWith({[start |-> quiet_time_start, end |-> quiet_time_end]})

\* the state after construction with one contact in listen_list, for every
\* configuration of QuietTimes
InitQuiet == InitWith(QuietTimes) /\ listen_list = <<"u1">>

\* the state after construction with one contact in listen_list
InitQueue == Init /\ listen_list = <<"u1">>

\* ---------------------------------------------------------------- actions
\* Positions of start_countdown and auto_send_message that only compute
ComputePcs == {"choose", "sc_cancel", "sc_daemon", "sc_start"}

\* A timer thread wakes when its interval has elapsed, a thread blocked on a
\* free lock acquires it, and a computing thread goes on: none of these
\* takes a tick of 0.1 s.  Time passes while threads wait for a timer, for a
\* held lock or for an external collaborator.
Urgent ==
  \/ \E t \in DOMAIN timers :
        timers[t].state = "armed" /\ now >= timers[t].fire_at
  \/ /\ queue_lock = NoTimer
     /\ \E t \in DOMAIN timers : timers[t].state = "waiting"
  \/ \E c \in DOMAIN cds :
        \/ cds[c].state = "armed" /\ now >= cds[c].fire_at
        \/ cds[c].state = "running" /\ cds[c].pc \in ComputePcs
        \/ cds[c].state = "running" /\ cds[c].pc = "sc_create"
             /\ nextCd <= MaxCountdowns
        \/ cds[c].state = "running" /\ cds[c].pc = "enqueue"
             /\ queue_lock = NoTimer /\ nextMsg <= MaxMsgs
  \/ listener.pc \in ComputePcs
  \/ listener.pc = "sc_create" /\ nextCd <= MaxCountdowns
  \/ listener.pc = "enqueue" /\ queue_lock = NoTimer /\ nextMsg <= MaxMsgs

Tick ==
  /\ now < MaxTime
  /\ timers # << >> \/ \E c \in DOMAIN cds : cds[c].state = "armed"
  /\ ~Urgent
  /\ now' = now + 1
  /\ UNCHANGED <<idleVars, message_queues, queue_timers, queue_lock, timers,
                 flush_local, nextMsg, enqueued, flushed, failed, deferred, skipped>>

\* the queue_data after one more message
NewQueue(a, urls, has_link) ==
  [messages |-> << [prefix |-> now, text |-> nextMsg] >>,
   chat_id |-> a.chat_id,
   sender_name |-> a.sender_name,
   username |-> a.username,
   is_group |-> a.is_group,
   is_image_recognition |-> a.is_image_recognition,
   last_update |-> now,
   has_link |-> has_link,
   urls |-> IF has_link THEN urls ELSE << >>]

\* variant: every buffered message is stamped, not only the first
AppendQueue_Stamped(q, urls, has_link) ==
  [q EXCEPT !.messages = Append(@, [prefix |-> now, text |-> nextMsg]),
            !.last_update = now,
            !.has_link = (has_link \/ @),
            !.urls = IF has_link THEN Append(@, urls[1]) ELSE @]

\* variant: the new message is inserted at the head of the list
AppendQueue_Prepend(q, urls, has_link) ==
  [q EXCEPT !.messages = << [prefix |-> NoPrefix, text |-> nextMsg] >> \o @,
            !.last_update = now,
            !.has_link = (has_link \/ @),
            !.urls = IF has_link THEN Append(@, urls[1]) ELSE @]

\* variant: has_link is overwritten by the flag of the latest message
AppendQueue_Overwrite(q, urls, has_link) ==
  [q EXCEPT !.messages = Append(@, [prefix |-> NoPrefix, text |-> nextMsg]),
            !.last_update = now,
            !.has_link = has_link,
            !.urls = IF has_link THEN Append(@, urls[1]) ELSE @]

\* variant: the new message replaces the buffered ones
AppendQueue_Replace(q, urls, has_link) ==
  [q EXCEPT !.messages = << [prefix |-> NoPrefix, text |-> nextMsg] >>,
            !.last_update = now,
            !.has_link = (has_link \/ @),
            !.urls = IF has_link THEN Append(@, urls[1]) ELSE @]

\* variant: the queue takes the sender of the outreach
AppendQueue_Relabel(q, urls, has_link) ==
  [q EXCEPT !.messages = Append(@, [prefix |-> NoPrefix, text |-> nextMsg]),
            !.last_update = now,
            !.has_link = (has_link \/ @),
            !.urls = IF has_link THEN Append(@, urls[1]) ELSE @,
            !.sender_name = "System",
            !.username = "System"]

AppendQueue(q, urls, has_link) ==
  [q EXCEPT !.messages = Append(@, [prefix |-> NoPrefix, text |-> nextMsg]),
            !.last_update = now,
            !.has_link = (has_link \/ @),
            !.urls = IF has_link THEN Append(@, urls[1]) ELSE @]

\* variant: the queue is stored under the sender instead of the queue key
EnqueueEffect_SenderKey(a, urls) ==
  LET has_link == WEBLENS_ENABLED /\ urls # << >>
      queue_key == a.sender_name
      q == IF queue_key \notin DOMAIN message_queues
             THEN NewQueue(a, urls, has_link)
             ELSE AppendQueue(message_queues[queue_key], urls, has_link)
      old == IF queue_key \in DOMAIN queue_timers
               THEN queue_timers[queue_key] ELSE NoTimer
      timer == [key |-> queue_key, fire_at |-> now + QUEUE_TIMEOUT,
                state |-> "armed", cancelled |-> FALSE]
  IN /\ message_queues' = PutKey(message_queues, queue_key, q)
     /\ timers' = PutKey(TimerCancel(timers, old), nextMsg, timer)
     /\ queue_timers' = PutKey(queue_timers, queue_key, nextMsg)
     /\ enqueued' = Append(enqueued,
                      [id |-> nextMsg,
                       key |-> _get_queue_key(a.chat_id, a.sender_name,
                                              a.is_group),
                       at |-> now, chat_id |-> a.chat_id,
                       sender_name |-> a.sender_name,
                       username |-> a.username, is_group |-> a.is_group,
                       is_image_recognition |-> a.is_image_recognition,
                       has_link |-> has_link, urls |-> urls])
     /\ nextMsg' = nextMsg + 1

\* body of _add_to_message_queue between acquiring and releasing the lock
EnqueueEffect(a, urls) ==
  LET has_link == WEBLENS_ENABLED /\ urls # << >>
      queue_key == _get_queue_key(a.chat_id, a.sender_name, a.is_group)
      q == IF queue_key \notin DOMAIN message_queues
             THEN NewQueue(a, urls, has_link)
             ELSE AppendQueue(message_queues[queue_key], urls, has_link)
      old == IF queue_key \in DOMAIN queue_timers
               THEN queue_timers[queue_key] ELSE NoTimer
      timer == [key |-> queue_key, fire_at |-> now + QUEUE_TIMEOUT,
                state |-> "armed", cancelled |-> FALSE]
  IN /\ message_queues' = PutKey(message_queues, queue_key, q)
     /\ timers' = PutKey(TimerCancel(timers, old), nextMsg, timer)
     /\ queue_timers' = PutKey(queue_timers, queue_key, nextMsg)
     /\ enqueued' = Append(enqueued,
                      [id |-> nextMsg, key |-> queue_key, at |-> now,
                       chat_id |-> a.chat_id, sender_name |-> a.sender_name,
                       username |-> a.username, is_group |-> a.is_group,
                       is_image_recognition |-> a.is_image_recognition,
                       has_link |-> has_link, urls |-> urls])
     /\ nextMsg' = nextMsg + 1

\* MessageHandler.add_to_queue / _add_to_message_queue called directly
add_to_queue(a, urls) ==
  /\ nextMsg <= MaxMsgs
  /\ now + QUEUE_TIMEOUT <= MaxTime
  /\ queue_lock = NoTimer
  /\ EnqueueEffect(a, urls)
  /\ UNCHANGED <<idleVars, now, queue_lock, flush_local, flushed, failed, deferred, skipped>>

\* threading.Timer: the interval has elapsed and the callback begins; it
\* then waits for queue_lock
TimerFires(t) ==
  /\ timers[t].state = "armed"
  /\ now >= timers[t].fire_at
  /\ timers' = [timers EXCEPT ![t].state = "waiting"]
  /\ UNCHANGED <<idleVars, now, message_queues, queue_timers, queue_lock, flush_local,
                 nextMsg, enqueued, flushed, failed, deferred, skipped>>

\* variant: the absent key is not noticed and the flush goes on with an
\* empty batch
ProcessAbsent_GoesOn(t) ==
  /\ timers[t].state = "waiting"
  /\ queue_lock = NoTimer
  /\ timers[t].key \notin DOMAIN message_queues
  /\ queue_lock' = t
  /\ timers' = [timers EXCEPT ![t].state = "classify"]
  /\ flush_local' = PutKey(flush_local, t,
                      [queue_data |-> [messages |-> << >>, is_group |-> FALSE],
                       web |-> << >>, responder |-> "none"])
  /\ UNCHANGED <<idleVars, now, message_queues, queue_timers, nextMsg,
                 enqueued, flushed, failed, deferred, skipped>>

\* _process_message_queue: the key is no longer in message_queues
ProcessAbsent(t) ==
  /\ timers[t].state = "waiting"
  /\ queue_lock = NoTimer
  /\ timers[t].key \notin DOMAIN message_queues
  /\ timers' = DropKey(timers, t)
  /\ skipped' = skipped \cup {t}
  /\ UNCHANGED <<idleVars, now, message_queues, queue_timers, queue_lock, flush_local,
                 nextMsg, enqueued, flushed, failed, deferred>>

\* variant: the elapsed-time re-check is missing
TooEarly_NoCheck(last_update) == FALSE

\* variant: a trigger that runs exactly one window after last_update defers
TooEarly_FullWindow(last_update) == now - last_update <= QUEUE_TIMEOUT

\* the elapsed-time re-check of _process_message_queue
TooEarly(last_update) == now - last_update < QUEUE_TIMEOUT - JITTER

\* variant: a deferring trigger unregisters the timer handle of its key
ProcessDefer_DropsHandle(t) ==
  /\ timers[t].state = "waiting"
  /\ queue_lock = NoTimer
  /\ timers[t].key \in DOMAIN message_queues
  /\ TooEarly(message_queues[timers[t].key].last_update)
  /\ timers' = DropKey(timers, t)
  /\ queue_timers' = DropKey(queue_timers, timers[t].key)
  /\ deferred' = deferred \cup {t}
  /\ UNCHANGED <<idleVars, now, message_queues, queue_lock, flush_local,
                 nextMsg, enqueued, flushed, failed, skipped>>

\* _process_message_queue: the window has not elapsed, return
ProcessDefer(t) ==
  /\ timers[t].state = "waiting"
  /\ queue_lock = NoTimer
  /\ timers[t].key \in DOMAIN message_queues
  /\ TooEarly(message_queues[timers[t].key].last_update)
  /\ timers' = DropKey(timers, t)
  /\ deferred' = deferred \cup {t}
  /\ UNCHANGED <<idleVars, now, message_queues, queue_timers, queue_lock, flush_local,
                 nextMsg, enqueued, flushed, failed, skipped>>

\* whether the flush resolves a link before classifying
NeedsExtract(q) == q.has_link /\ WEBLENS_ENABLED /\ q.urls # << >>

\* variant: the pop leaves the timer handle of the key registered
ProcessPop_KeepsHandle(t) ==
  LET k == timers[t].key IN
  /\ timers[t].state = "waiting"
  /\ queue_lock = NoTimer
  /\ k \in DOMAIN message_queues
  /\ ~TooEarly(message_queues[k].last_update)
  /\ message_queues' = DropKey(message_queues, k)
  /\ queue_timers' = queue_timers
  /\ queue_lock' = t
  /\ timers' = [timers EXCEPT ![t].state =
                  IF NeedsExtract(message_queues[k]) THEN "extract"
                  ELSE "classify"]
  /\ flush_local' = PutKey(flush_local, t,
                      [queue_data |-> message_queues[k],
                       web |-> << >>, responder |-> "none"])
  /\ flushed' = Append(flushed,
                  [key |-> k, by |-> t, at |-> now, seen |-> Len(enqueued),
                   queue_data |-> message_queues[k]])
  /\ UNCHANGED <<idleVars, now, nextMsg, enqueued, failed, deferred, skipped>>

\* variant: the lock is released right after the pop
ProcessPop_ReleasesLock(t) ==
  LET k == timers[t].key IN
  /\ timers[t].state = "waiting"
  /\ queue_lock = NoTimer
  /\ k \in DOMAIN message_queues
  /\ ~TooEarly(message_queues[k].last_update)
  /\ message_queues' = DropKey(message_queues, k)
  /\ queue_timers' = DropKey(queue_timers, k)
  /\ queue_lock' = NoTimer
  /\ timers' = [timers EXCEPT ![t].state =
                  IF NeedsExtract(message_queues[k]) THEN "extract"
                  ELSE "classify"]
  /\ flush_local' = PutKey(flush_local, t,
                      [queue_data |-> message_queues[k],
                       web |-> << >>, responder |-> "none"])
  /\ flushed' = Append(flushed,
                  [key |-> k, by |-> t, at |-> now, seen |-> Len(enqueued),
                   queue_data |-> message_queues[k]])
  /\ UNCHANGED <<idleVars, now, nextMsg, enqueued, failed, deferred, skipped>>

\* _process_message_queue: pop the queue and its timer handle; the lock
\* stays held for the rest of the method
ProcessPop(t) ==
  LET k == timers[t].key IN
  /\ timers[t].state = "waiting"
  /\ queue_lock = NoTimer
  /\ k \in DOMAIN message_queues
  /\ ~TooEarly(message_queues[k].last_update)
  /\ message_queues' = DropKey(message_queues, k)
  /\ queue_timers' = DropKey(queue_timers, k)
  /\ queue_lock' = t
  /\ timers' = [timers EXCEPT ![t].state =
                  IF NeedsExtract(message_queues[k]) THEN "extract"
                  ELSE "classify"]
  /\ flush_local' = PutKey(flush_local, t,
                      [queue_data |-> message_queues[k],
                       web |-> << >>, responder |-> "none"])
  /\ flushed' = Append(flushed,
                  [key |-> k, by |-> t, at |-> now, seen |-> Len(enqueued),
                   queue_data |-> message_queues[k]])
  /\ UNCHANGED <<idleVars, now, nextMsg, enqueued, failed, deferred, skipped>>

\* variant: an exception leaves the method without releasing the lock
FlushEnd_KeepsLock(t) ==
  /\ queue_lock' = queue_lock
  /\ timers' = DropKey(timers, t)
  /\ flush_local' = DropKey(flush_local, t)

\* leaving the with block and the method: by return or by the except clause
FlushEnd(t) ==
  /\ queue_lock' = NoTimer
  /\ timers' = DropKey(timers, t)
  /\ flush_local' = DropKey(flush_local, t)

\* the flush of timer t is recorded as one in which a collaborator failed
\* at step, having sent the sequence sent through the chat transport
RecordFailure(t, step, sent, raised) ==
  failed' = PutKey(failed, t,
              [key |-> timers[t].key, step |-> step,
               sent |-> sent, raised |-> raised])

\* what network_search_service.extract_web_content(urls[0]) may do
ExtractOutcomes == {"ok", "empty", "raise"}

\* network_search_service.extract_web_content(urls[0])
ExtractWebContent(t, outcome) ==
  /\ timers[t].state = "extract"
  /\ \/ /\ outcome = "ok"
        /\ flush_local' = [flush_local EXCEPT ![t].web =
                             << flush_local[t].queue_data.urls[1] >>]
        /\ timers' = [timers EXCEPT ![t].state = "classify"]
        /\ UNCHANGED <<queue_lock, failed>>
     \/ /\ outcome = "empty"
        /\ timers' = [timers EXCEPT ![t].state = "classify"]
        /\ UNCHANGED <<queue_lock, flush_local, failed>>
     \/ /\ outcome = "raise"
        /\ FlushEnd(t)
        /\ RecordFailure(t, "extract", << >>, TRUE)
  /\ UNCHANGED <<idleVars, now, message_queues, queue_timers, nextMsg, enqueued,
                 flushed, deferred, skipped>>

\* what the classifiers may do
ClassifyOutcomes == {"voice", "image", "text", "raise"}

\* is_voice_request, then is_random_image_request, else text
Classify(t, outcome) ==
  /\ timers[t].state = "classify"
  /\ \/ /\ outcome # "raise"
        /\ flush_local' = [flush_local EXCEPT ![t].responder = outcome]
        /\ timers' = [timers EXCEPT ![t].state = "respond"]
        /\ UNCHANGED <<queue_lock, failed>>
     \/ /\ outcome = "raise"
        /\ FlushEnd(t)
        /\ RecordFailure(t, "classify", << >>, TRUE)
  /\ UNCHANGED <<idleVars, now, message_queues, queue_timers, nextMsg, enqueued,
                 flushed, deferred, skipped>>

\* What the collaborators of a responder may do.  api_raise: get_api_response
\* raises; media_fail: wx.SendFiles raises and the responder catches it;
\* no_image: get_random_image returns None; send_raise: wx.SendMsg raises
\* after the image went out.
RespondOutcomes(responder, is_group) ==
  IF responder = "image" THEN {"ok", "no_image", "media_fail", "send_raise"}
  ELSE IF responder = "voice" /\ ~is_group
    THEN {"ok", "api_raise", "media_fail"}
  ELSE {"ok", "api_raise"}

AllRespondOutcomes ==
  UNION { RespondOutcomes(r, g) : r \in {"voice", "image", "text"},
                                  g \in BOOLEAN }

\* what a responder passes to wx.SendFiles and wx.SendMsg, in order
Sends(responder, is_group, outcome) ==
  IF responder = "image"
    THEN CASE outcome = "ok" -> <<"image", "reply">>
           [] outcome = "no_image" -> << >>
           [] outcome = "media_fail" -> <<"apology">>
           [] outcome = "send_raise" -> <<"image">>
  ELSE IF responder = "voice" /\ ~is_group
    THEN CASE outcome = "ok" -> <<"voice">>
           [] outcome = "api_raise" -> << >>
           [] outcome = "media_fail" -> <<"reply">>
  ELSE CASE outcome = "ok" -> <<"reply">>
         [] outcome = "api_raise" -> << >>

\* _handle_voice_request / _handle_random_image_request /
\* _handle_text_message returns or raises
Respond(t, outcome) ==
  LET responder == flush_local[t].responder
      is_group == flush_local[t].queue_data.is_group
  IN /\ timers[t].state = "respond"
     /\ outcome \in RespondOutcomes(responder, is_group)
     /\ FlushEnd(t)
     /\ IF outcome = "ok" THEN UNCHANGED failed
        ELSE RecordFailure(t, "respond", Sends(responder, is_group, outcome),
                           outcome \in {"api_raise", "send_raise"})
     /\ UNCHANGED <<idleVars, now, message_queues, queue_timers, nextMsg,
                    enqueued, flushed, deferred, skipped>>

\* _check_time_reminder_and_search, lines 1021-1041 (what follows them is
\* a string literal): False for a System sender, True when the text holds
\* the marker of an earlier search, else nothing
search_handled(sender_name, marker) == sender_name # "System" /\ marker

\* variant: the image classifier is asked before the voice classifier
Responder_ImageFirst(handled, voice, image) ==
  IF handled THEN "text"
  ELSE IF image THEN "image"
  ELSE IF voice THEN "voice"
  ELSE "text"

\* lines 433-436 and 473-480: the responder _process_message_queue calls
Responder(handled, voice, image) ==
  IF handled THEN "text"
  ELSE IF voice THEN "voice"
  ELSE IF image THEN "image"
  ELSE "text"

\* lines 433-480 for a processed text that holds the search marker or not
\* and for which is_voice_request and is_random_image_request answer voice
\* and image: the responder is called with the local variables read from
\* queue_data at lines 389-392
Dispatch(t, marker, voice, image) ==
  LET q == flush_local[t].queue_data
      handled == search_handled(q.sender_name, marker)
      responder == Responder(handled, voice, image)
  IN /\ timers[t].state = "classify"
     /\ flush_local' = PutKey(flush_local, t,
          [queue_data |-> q, web |-> flush_local[t].web,
           responder |-> responder,
           marker |-> marker, voice |-> voice, image |-> image,
           calls |-> << [responder |-> responder, chat_id |-> q.chat_id,
                         sender_name |-> q.sender_name,
                         username |-> q.username,
                         is_group |-> q.is_group] >>])
     /\ timers' = [timers EXCEPT ![t].state = "respond"]
     /\ UNCHANGED <<idleVars, now, message_queues, queue_timers, queue_lock,
                    nextMsg, enqueued, flushed, failed, deferred, skipped>>

\* _handle_text_message, line 868: whether the batch of queue_data q is
\* saved and treated as a system message
is_system_message(q) == q.sender_name = "System" \/ q.username = "System"

\* _process_message_queue as one step: from the moment its timer expires
\* to its return the method runs inside queue_lock, so no other user of
\* the queue store sees it half done
_process_message_queue(t) ==
  LET k == timers[t].key IN
  /\ timers[t].state = "armed"
  /\ now >= timers[t].fire_at
  /\ queue_lock = NoTimer
  /\ timers' = DropKey(timers, t)
  /\ IF k \notin DOMAIN message_queues
       THEN /\ skipped' = skipped \cup {t}
            /\ UNCHANGED <<message_queues, queue_timers, flushed, deferred>>
     ELSE IF TooEarly(message_queues[k].last_update)
       THEN /\ deferred' = deferred \cup {t}
            /\ UNCHANGED <<message_queues, queue_timers, flushed, skipped>>
     ELSE /\ message_queues' = DropKey(message_queues, k)
          /\ queue_timers' = DropKey(queue_timers, k)
          /\ flushed' = Append(flushed,
                          [key |-> k, by |-> t, at |-> now,
                           seen |-> Len(enqueued),
                           queue_data |-> message_queues[k]])
          /\ UNCHANGED <<deferred, skipped>>
  /\ UNCHANGED <<idleVars, now, queue_lock, flush_local, nextMsg, enqueued,
                 failed>>

\* ------------------------------------------------- idle countdown (autosend)
\* datetime.strptime(s, "%H:%M").time(), in seconds of the day
strptime(hm) == (hm[1] * 60 + hm[2]) * 60

\* whether datetime.strptime(s, "%H:%M") accepts the configured value
strptime_ok(hm) == Len(hm) = 2 /\ hm[1] \in 0..23 /\ hm[2] \in 0..59

\* lines 46-51: the comparison of the three times of day
QuietPolicy(quiet_start, quiet_end, current_time) ==
  IF quiet_start <= quiet_end
    THEN quiet_start <= current_time /\ current_time <= quiet_end
    ELSE current_time >= quiet_start \/ current_time <= quiet_end

\* variant: the window that spans midnight is tested with "and"
is_quiet_time_And(current_time) ==
  IF ~(strptime_ok(quiet_time.start) /\ strptime_ok(quiet_time.end))
    THEN FALSE
  ELSE LET quiet_start == strptime(quiet_time.start)
           quiet_end == strptime(quiet_time.end)
       IN IF quiet_start <= quiet_end
            THEN quiet_start <= current_time /\ current_time <= quiet_end
            ELSE current_time >= quiet_start /\ current_time <= quiet_end

\* variant: the bounds of the window are excluded
is_quiet_time_Exclusive(current_time) ==
  IF ~(strptime_ok(quiet_time.start) /\ strptime_ok(quiet_time.end))
    THEN FALSE
  ELSE LET quiet_start == strptime(quiet_time.start)
           quiet_end == strptime(quiet_time.end)
       IN IF quiet_start <= quiet_end
            THEN quiet_start < current_time /\ current_time < quiet_end
            ELSE current_time > quiet_start \/ current_time < quiet_end

\* variant: a configuration that cannot be parsed suppresses the outreach
is_quiet_time_FailClosed(current_time) ==
  IF ~(strptime_ok(quiet_time.start) /\ strptime_ok(quiet_time.end))
    THEN TRUE
  ELSE QuietPolicy(strptime(quiet_time.start), strptime(quiet_time.end),
                   current_time)

\* AutoSendHandler.is_quiet_time for the wall-clock time current_time; a
\* ValueError of strptime is caught at lines 52-54
is_quiet_time(current_time) ==
  IF ~(strptime_ok(quiet_time.start) /\ strptime_ok(quiet_time.end))
    THEN FALSE
  ELSE QuietPolicy(strptime(quiet_time.start), strptime(quiet_time.end),
                   current_time)

\* variant: the delay may fall short of min_seconds
get_random_countdown_time_Below == (min_seconds - 1)..max_seconds

\* AutoSendHandler.get_random_countdown_time: the values random.uniform
\* can return, in ticks
get_random_countdown_time == min_seconds..max_seconds

\* Timer.cancel() on a countdown timer: an armed timer never runs its
\* callback, a running one keeps running, a created one will not run
CdCancel(cs, c) ==
  IF c = NoTimer THEN cs
  ELSE [cs EXCEPT ![c].cancelled = TRUE,
                  ![c].state = IF @ = "armed" THEN "finished" ELSE @]

\* config.behavior.auto_message.content
auto_message_content == "auto_message.content"

\* the local reply_content of a run that has not built it
NoContent == [template |-> "", instruction |-> "", fields |-> << >>]

\* line 85: the f-string has one replacement field, the configured text,
\* followed by a fixed instruction; `fields` lists the values of any other
\* replacement fields, of which there are none
reply_content ==
  [template |-> auto_message_content,
   instruction |-> "reply in character",
   fields |-> << >>]

\* threading.Timer(countdown_seconds, self.auto_send_message)
NewCd(d) ==
  [state |-> "created", cancelled |-> FALSE, fire_at |-> now + d,
   pc |-> "none", branch |-> "none", clock |-> NoTime,
   reply_content |-> NoContent]

\* start_countdown, lines 111-115: cancel the current timer
SCCancel == CdCancel(cds, countdown_timer)

\* start_countdown, line 128: Thread.daemon may be set before start() only
SCDaemonOk ==
  countdown_timer # NoTimer /\ cds[countdown_timer].state = "created"

\* start_countdown, line 130: Thread.start() may be called once
SCStartOk ==
  countdown_timer # NoTimer /\ cds[countdown_timer].state = "created"

\* Timer.start(): a timer cancelled before it is started ends at once
SCStarted(cs) ==
  [cs EXCEPT ![countdown_timer].state =
               IF cs[countdown_timer].cancelled THEN "finished" ELSE "armed"]

\* main.py:198, before the listener thread exists
MainStart ==
  /\ nextCd = 1
  /\ \E d \in get_random_countdown_time :
       /\ countdown_end_time' = now + d
       /\ cds' = PutKey(cds, nextCd, [NewCd(d) EXCEPT !.state = "armed"])
  /\ countdown_timer' = nextCd
  /\ nextCd' = nextCd + 1
  /\ is_countdown_running' = TRUE
  /\ UNCHANGED <<now, listen_list, quiet_time, stop_event, stopped, queueVars, unanswered_count, listener, escaped>>

\* ---- ChatBot.handle_wxauto_message on the listener thread
\* message_listener fetches messages while stop_event is not set
\* (main.py:207); a message arrives and start_countdown begins (main.py:78),
\* lines 111-115: cancel the current timer
ListenerReceive(a, urls) ==
  /\ listener.pc = "idle"
  /\ ~stop_event
  /\ nextCd > 1
  /\ nextCd <= MaxCountdowns
  /\ nextMsg <= MaxMsgs
  /\ now + QUEUE_TIMEOUT <= MaxTime
  /\ cds' = SCCancel
  /\ listener' = [pc |-> "sc_create", msg |-> << [a |-> a, urls |-> urls] >>]
  /\ UNCHANGED <<now, listen_list, quiet_time, stop_event, stopped, queueVars, countdown_timer, is_countdown_running,
                 countdown_end_time, unanswered_count, nextCd, escaped>>

ListenerSCCreate ==
  /\ listener.pc = "sc_create"
  /\ nextCd <= MaxCountdowns
  /\ \E d \in get_random_countdown_time :
       /\ countdown_end_time' = now + d
       /\ cds' = PutKey(cds, nextCd, NewCd(d))
  /\ countdown_timer' = nextCd
  /\ nextCd' = nextCd + 1
  /\ listener' = [listener EXCEPT !.pc = "sc_daemon"]
  /\ UNCHANGED <<now, listen_list, quiet_time, stop_event, stopped, queueVars, is_countdown_running, unanswered_count,
                 escaped>>

\* an exception of start_countdown is caught at main.py:132 and the message
\* is not handled
ListenerSCDaemon ==
  /\ listener.pc = "sc_daemon"
  /\ listener' = IF SCDaemonOk THEN [listener EXCEPT !.pc = "sc_start"]
                 ELSE [pc |-> "idle", msg |-> << >>]
  /\ UNCHANGED <<now, listen_list, quiet_time, stop_event, stopped, queueVars, countdown_timer, is_countdown_running,
                 countdown_end_time, unanswered_count, cds, nextCd, escaped>>

ListenerSCStart ==
  /\ listener.pc = "sc_start"
  /\ IF SCStartOk
       THEN /\ cds' = SCStarted(cds)
            /\ is_countdown_running' = TRUE
            /\ listener' = [listener EXCEPT !.pc = "enqueue"]
       ELSE /\ listener' = [pc |-> "idle", msg |-> << >>]
            /\ UNCHANGED <<cds, is_countdown_running>>
  /\ UNCHANGED <<now, listen_list, quiet_time, stop_event, stopped, queueVars, countdown_timer, countdown_end_time,
                 unanswered_count, nextCd, escaped>>

\* handle_user_message -> _add_to_message_queue
ListenerEnqueue ==
  /\ listener.pc = "enqueue"
  /\ nextMsg <= MaxMsgs
  /\ queue_lock = NoTimer
  /\ EnqueueEffect(listener.msg[1].a, listener.msg[1].urls)
  /\ listener' = [pc |-> "idle", msg |-> << >>]
  /\ UNCHANGED <<now, listen_list, quiet_time, stop_event, stopped, queue_lock, flush_local, flushed, failed, deferred, skipped,
                 countdown_timer, is_countdown_running,
                 countdown_end_time, unanswered_count, cds, nextCd, escaped>>

\* ---- AutoSendHandler.auto_send_message on the thread of countdown timer c
\* lines 66-74 and 105-107: the branch auto_send_message takes
FireBranch(current_time) ==
  IF is_quiet_time(current_time) THEN "quiet"
  ELSE IF listen_list # << >> THEN "send" ELSE "empty"

\* variant: the attempt is counted before listen_list is tested
CountdownFires_CountsEmpty(c, current_time) ==
  /\ cds[c].state = "armed"
  /\ now >= cds[c].fire_at
  /\ cds' = [cds EXCEPT ![c].state = "running",
                        ![c].clock = current_time,
                        ![c].branch = FireBranch(current_time),
                        ![c].pc = IF FireBranch(current_time) = "send"
                                    THEN "choose" ELSE "sc_cancel"]
  /\ unanswered_count' = IF FireBranch(current_time) = "quiet"
                           THEN unanswered_count ELSE unanswered_count + 1
  /\ UNCHANGED <<now, listen_list, quiet_time, stop_event, stopped, queueVars, countdown_timer, is_countdown_running,
                 countdown_end_time, nextCd, listener, escaped>>

\* the interval has elapsed: the callback begins and tests is_quiet_time
CountdownFires(c, current_time) ==
  /\ cds[c].state = "armed"
  /\ now >= cds[c].fire_at
  /\ cds' = [cds EXCEPT ![c].state = "running",
                        ![c].clock = current_time,
                        ![c].branch = FireBranch(current_time),
                        ![c].pc = IF FireBranch(current_time) = "send"
                                    THEN "choose" ELSE "sc_cancel"]
  /\ UNCHANGED <<now, listen_list, quiet_time, stop_event, stopped, queueVars, countdown_timer, is_countdown_running,
                 countdown_end_time, unanswered_count, nextCd, listener,
                 escaped>>

\* lines 77-86: choose the target, count the attempt, build the text
FireChoose(c) ==
  /\ cds[c].state = "running"
  /\ cds[c].pc = "choose"
  /\ unanswered_count' = unanswered_count + 1
  /\ cds' = [cds EXCEPT ![c].pc = "enqueue",
                        ![c].reply_content = reply_content]
  /\ UNCHANGED <<now, listen_list, quiet_time, stop_event, stopped, queueVars, countdown_timer, is_countdown_running,
                 countdown_end_time, nextCd, listener, escaped>>

\* variant: the outreach message is enqueued as a group message
Outreach_Group(user_id) ==
  [chat_id |-> user_id, sender_name |-> "System", username |-> "System",
   is_group |-> TRUE, is_image_recognition |-> FALSE]

\* the arguments of add_to_queue at lines 90-96
Outreach(user_id) ==
  [chat_id |-> user_id, sender_name |-> "System", username |-> "System",
   is_group |-> FALSE, is_image_recognition |-> FALSE]

\* lines 90-101: add_to_queue returns
FireEnqueue(c) ==
  /\ cds[c].state = "running"
  /\ cds[c].pc = "enqueue"
  /\ nextMsg <= MaxMsgs
  /\ queue_lock = NoTimer
  /\ \E i \in DOMAIN listen_list :
       EnqueueEffect(Outreach(listen_list[i]), << >>)
  /\ cds' = [cds EXCEPT ![c].pc = "sc_cancel"]
  /\ UNCHANGED <<now, listen_list, quiet_time, stop_event, stopped, queue_lock, flush_local, flushed, failed, deferred, skipped,
                 countdown_timer, is_countdown_running,
                 countdown_end_time, unanswered_count, nextCd, listener,
                 escaped>>

\* variant: the except clause only logs
FireEnqueueFails_NoRearm(c) ==
  /\ cds[c].state = "running"
  /\ cds[c].pc = "enqueue"
  /\ cds' = [cds EXCEPT ![c].state = "finished", ![c].pc = "returned",
                        ![c].branch = "except"]
  /\ UNCHANGED <<now, listen_list, quiet_time, stop_event, stopped, queueVars, countdown_timer,
                 is_countdown_running, countdown_end_time, unanswered_count,
                 nextCd, listener, escaped>>

\* lines 102-104: add_to_queue raises (detect_urls fails), the except
\* clause starts the countdown
FireEnqueueFails(c) ==
  /\ cds[c].state = "running"
  /\ cds[c].pc = "enqueue"
  /\ cds' = [cds EXCEPT ![c].pc = "sc_cancel", ![c].branch = "except"]
  /\ UNCHANGED <<now, listen_list, quiet_time, stop_event, stopped, queueVars, countdown_timer, is_countdown_running,
                 countdown_end_time, unanswered_count, nextCd, listener,
                 escaped>>

\* an exception of start_countdown inside auto_send_message: caught once
\* when raised at line 101, otherwise it leaves the callback
FireRaise(cs, c) ==
  IF cs[c].branch = "send"
    THEN [cs EXCEPT ![c].branch = "except", ![c].pc = "sc_cancel"]
    ELSE [cs EXCEPT ![c].state = "finished", ![c].pc = "raised"]

FireSCCancel(c) ==
  /\ cds[c].state = "running"
  /\ cds[c].pc = "sc_cancel"
  /\ cds' = [SCCancel EXCEPT ![c].pc = "sc_create"]
  /\ UNCHANGED <<now, listen_list, quiet_time, stop_event, stopped, queueVars, countdown_timer, is_countdown_running,
                 countdown_end_time, unanswered_count, nextCd, listener,
                 escaped>>

FireSCCreate(c) ==
  /\ cds[c].state = "running"
  /\ cds[c].pc = "sc_create"
  /\ nextCd <= MaxCountdowns
  /\ \E d \in get_random_countdown_time :
       /\ countdown_end_time' = now + d
       /\ cds' = PutKey([cds EXCEPT ![c].pc = "sc_daemon"], nextCd, NewCd(d))
  /\ countdown_timer' = nextCd
  /\ nextCd' = nextCd + 1
  /\ UNCHANGED <<now, listen_list, quiet_time, stop_event, stopped, queueVars, is_countdown_running, unanswered_count,
                 listener, escaped>>

FireSCDaemon(c) ==
  /\ cds[c].state = "running"
  /\ cds[c].pc = "sc_daemon"
  /\ cds' = IF SCDaemonOk THEN [cds EXCEPT ![c].pc = "sc_start"]
            ELSE FireRaise(cds, c)
  /\ escaped' = IF cds'[c].pc = "raised" THEN escaped \cup {c} ELSE escaped
  /\ UNCHANGED <<now, listen_list, quiet_time, stop_event, stopped, queueVars, countdown_timer, is_countdown_running,
                 countdown_end_time, unanswered_count, nextCd, listener>>

\* line 130-132, then auto_send_message returns
FireSCStart(c) ==
  /\ cds[c].state = "running"
  /\ cds[c].pc = "sc_start"
  /\ IF SCStartOk
       THEN /\ cds' = [SCStarted(cds) EXCEPT ![c].state = "finished",
                                             ![c].pc = "returned"]
            /\ is_countdown_running' = TRUE
       ELSE /\ cds' = FireRaise(cds, c)
            /\ UNCHANGED is_countdown_running
  /\ escaped' = IF cds'[c].pc = "raised" THEN escaped \cup {c} ELSE escaped
  /\ UNCHANGED <<now, listen_list, quiet_time, stop_event, stopped, queueVars, countdown_timer, countdown_end_time,
                 unanswered_count, nextCd, listener>>


\* ---- shutdown
\* AutoSendHandler.stop(), lines 134-140
StopEffect ==
  /\ cds' = CdCancel(cds, countdown_timer)
  /\ countdown_timer' = NoTimer
  /\ is_countdown_running' = FALSE

\* stop() called by the owner of the handler
stop ==
  /\ ~stopped
  /\ nextCd > 1
  /\ StopEffect
  /\ stopped' = TRUE
  /\ UNCHANGED <<now, listen_list, quiet_time, stop_event, queueVars, countdown_end_time,
                 unanswered_count, nextCd, listener, escaped>>

\* main.py:471: 'auto_sender' in locals() inside main(); auto_sender is
\* bound at module level (line 192) and main() assigns no local of that
\* name
auto_sender_in_locals == FALSE

\* the finally block of main(), lines 469-486: stop the idle scheduler if
\* the handler is found, set stop_event
Shutdown ==
  /\ ~stop_event
  /\ nextCd > 1
  /\ stop_event' = TRUE
  /\ IF auto_sender_in_locals
       THEN StopEffect /\ stopped' = TRUE
       ELSE UNCHANGED <<cds, countdown_timer, is_countdown_running, stopped>>
  /\ UNCHANGED <<now, listen_list, quiet_time, queueVars, countdown_end_time,
                 unanswered_count, nextCd, listener, escaped>>

\* ---------------------------------------------------------- specifications
NextQueue ==
  \/ Tick
  \/ \E a \in Callers : add_to_queue(a, << >>)
  \/ \E t \in DOMAIN timers : TimerFires(t)
  \/ \E t \in DOMAIN timers : ProcessAbsent(t)
  \/ \E t \in DOMAIN timers : ProcessDefer(t)
  \/ \E t \in DOMAIN timers : ProcessPop(t)
  \/ \E t \in DOMAIN timers :
       \E o \in ClassifyOutcomes \ {"raise"} : Classify(t, o)
  \/ \E t \in DOMAIN timers : Respond(t, "ok")

\* the debounce engine under arbitrary callers of add_to_queue, with texts
\* in which detect_urls finds nothing and collaborators that do not fail
SpecQueue == InitQueue /\ [][NextQueue]_vars

\* the private chat of Callers
PrivateCallers == { a \in Callers : ~a.is_group }

NextFlush ==
  \/ Tick
  \/ \E a \in PrivateCallers :
       \E urls \in UrlLists(a) : add_to_queue(a, urls)
  \/ \E t \in DOMAIN timers : TimerFires(t)
  \/ \E t \in DOMAIN timers : ProcessDefer(t)
  \/ \E t \in DOMAIN timers : ProcessPop(t)
  \/ \E t \in DOMAIN timers :
       \E o \in ExtractOutcomes : ExtractWebContent(t, o)
  \/ \E t \in DOMAIN timers :
       \E o \in ClassifyOutcomes : Classify(t, o)
  \/ \E t \in DOMAIN timers :
       \E o \in AllRespondOutcomes : Respond(t, o)

\* the debounce engine for one private chat, with texts in which detect_urls
\* may find a link and collaborators of the flush that may fail
\* (with one key a callback never waits for queue_lock behind the flush of
\* another key, so none finds its key absent: that branch is in SpecQueue)
SpecFlush == InitQueue /\ [][NextFlush]_vars

NextKeys == \E a \in KeyCallers : add_to_queue(a, << >>)

\* key resolution applied to the calls of one private chat and one group
\* with two senders, all made within one debounce window
SpecKeys == InitQueue /\ [][NextKeys]_vars

Next ==
  \/ Tick
  \/ MainStart
  \/ \E a \in Callers : ListenerReceive(a, << >>)
  \/ ListenerSCCreate
  \/ ListenerSCDaemon
  \/ ListenerSCStart
  \/ ListenerEnqueue
  \/ \E c \in DOMAIN cds :
       \E current_time \in WallClocks : CountdownFires(c, current_time)
  \/ \E c \in DOMAIN cds : FireChoose(c)
  \/ \E c \in DOMAIN cds : FireEnqueue(c)
  \/ \E c \in DOMAIN cds : FireEnqueueFails(c)
  \/ \E c \in DOMAIN cds : FireSCCancel(c)
  \/ \E c \in DOMAIN cds : FireSCCreate(c)
  \/ \E c \in DOMAIN cds : FireSCDaemon(c)
  \/ \E c \in DOMAIN cds : FireSCStart(c)
  \/ \E t \in DOMAIN timers : _process_message_queue(t)

\* the whole bot: the listener thread and the idle countdown step by step,
\* the debounce callback as one step
Spec == Init /\ [][Next]_vars

NextQuiet ==
  \/ Tick
  \/ MainStart
  \/ \E c \in DOMAIN cds :
       \E current_time \in QuietClocks : CountdownFires(c, current_time)
  \/ \E c \in DOMAIN cds : FireChoose(c)
  \/ \E c \in DOMAIN cds : FireEnqueue(c)
  \/ \E c \in DOMAIN cds : FireEnqueueFails(c)
  \/ \E c \in DOMAIN cds : FireSCCancel(c)
  \/ \E c \in DOMAIN cds : FireSCCreate(c)
  \/ \E c \in DOMAIN cds : FireSCDaemon(c)
  \/ \E c \in DOMAIN cds : FireSCStart(c)
  \/ \E t \in DOMAIN timers : _process_message_queue(t)

\* the idle countdown alone (no inbound message), under every configuration
\* of QuietTimes and every time of day of QuietClocks
SpecQuiet == InitQuiet /\ [][NextQuiet]_vars

NextStop ==
  \/ Next
  \/ stop
  \/ Shutdown

\* the whole bot with its shutdown path and with a caller of stop()
SpecStop == Init /\ [][NextStop]_vars

\* the callers of one private chat: the contact u1 and the outreach of
\* AutoSendHandler to u1
DispatchCallers == PrivateCallers \cup { Outreach("u1") }

\* the callers of DispatchCallers and the contact u1 with a recognised
\* image (main.py:110-118): three calls with different metadata and one key
MetaCallers ==
  DispatchCallers
    \cup { [a EXCEPT !.is_image_recognition = TRUE] : a \in PrivateCallers }

NextMeta == \E a \in MetaCallers : add_to_queue(a, << >>)

\* enqueues of one private chat with varying metadata, all made within one
\* debounce window
SpecMeta == InitQueue /\ [][NextMeta]_vars

NextDispatch ==
  \/ Tick
  \/ \E a \in DispatchCallers : add_to_queue(a, << >>)
  \/ \E t \in DOMAIN timers : TimerFires(t)
  \/ \E t \in DOMAIN timers : ProcessDefer(t)
  \/ \E t \in DOMAIN timers : ProcessPop(t)
  \/ \E t \in DOMAIN timers :
       \E marker, voice, image \in BOOLEAN : Dispatch(t, marker, voice, image)
  \/ \E t \in DOMAIN timers : Respond(t, "ok")

\* the flush of one private chat with the verdicts of the classifiers as
\* inputs, for batches of the contact and of the outreach
SpecDispatch == InitQueue /\ [][NextDispatch]_vars

\* the debounce timers that can exist in a behaviour of MaxLiveMsgs
\* messages: timer t is created by the enqueue of message t
TimerIds == 1..MaxLiveMsgs

NextLive ==
  \/ Tick
  \/ /\ nextMsg <= MaxLiveMsgs
     /\ \E a \in Callers : add_to_queue(a, << >>)
  \/ \E t \in DOMAIN timers : TimerFires(t)
  \/ \E t \in DOMAIN timers : ProcessAbsent(t)
  \/ \E t \in DOMAIN timers : ProcessDefer(t)
  \/ \E t \in DOMAIN timers : ProcessPop(t)
  \/ \E t \in DOMAIN timers :
       \E o \in ClassifyOutcomes \ {"raise"} : Classify(t, o)
  \/ \E t \in DOMAIN timers : Respond(t, "ok")

\* Scheduling of the debounce engine: the clock advances, some timer whose
\* interval has elapsed runs its callback (threading.Timer), some callback
\* waiting for queue_lock gets it when it is free again and again (fair
\* lock), and the classifiers and the responder of the running flush
\* return.  Each condition follows from the same condition stated for every
\* thread.  Nothing is assumed of the callers of add_to_queue.
FairQueue ==
  /\ WF_vars(Tick)
  /\ WF_vars(\E t \in DOMAIN timers : TimerFires(t))
  /\ SF_vars(\E t \in DOMAIN timers :
               ProcessAbsent(t) \/ ProcessDefer(t) \/ ProcessPop(t))
  /\ WF_vars(\E t \in DOMAIN timers :
               \/ \E o \in ClassifyOutcomes \ {"raise"} : Classify(t, o)
               \/ Respond(t, "ok"))

\* the debounce engine of SpecQueue for MaxLiveMsgs messages, under the
\* scheduling of FairQueue
SpecLive == InitQueue /\ [][NextLive]_vars /\ FairQueue

\* Arguments with which _add_to_message_queue is reached for a contact
\* whose name is that of group g, an underscore and the member u1: the
\* private chats g_u1 and u1 and the members u1 and u2 of group g
CollisionCallers ==
  { [chat_id |-> "g_u1", sender_name |-> "g_u1", username |-> "g_u1",
     is_group |-> FALSE, is_image_recognition |-> FALSE],
    [chat_id |-> "u1", sender_name |-> "u1", username |-> "u1",
     is_group |-> FALSE, is_image_recognition |-> FALSE],
    [chat_id |-> "g", sender_name |-> "u1", username |-> "u1",
     is_group |-> TRUE, is_image_recognition |-> FALSE],
    [chat_id |-> "g", sender_name |-> "u2", username |-> "u2",
     is_group |-> TRUE, is_image_recognition |-> FALSE] }

NextCollide == \E a \in CollisionCallers : add_to_queue(a, << >>)

\* key resolution applied to calls of two private chats and one group, all
\* made within one debounce window
SpecCollide == InitQueue /\ [][NextCollide]_vars

\* ------------------------------------------------------------ properties
TypeOK ==
  /\ now \in 0..MaxTime
  /\ queue_lock \in 0..MaxMsgs
  /\ DOMAIN timers \subseteq 1..MaxMsgs
  /\ DOMAIN cds \subseteq 1..MaxCountdowns

KeysSeen == { enqueued[i].key : i \in DOMAIN enqueued }

EnqOf(k) == SelectSeq(enqueued, LAMBDA e : e.key = k)

BatchesOf(k) == SelectSeq(flushed, LAMBDA b : b.key = k)

Ids(es) == [i \in DOMAIN es |-> es[i].id]

Texts(msgs) == [i \in DOMAIN msgs |-> msgs[i].text]

RECURSIVE BatchTexts(_)
BatchTexts(bs) ==
  IF bs = << >> THEN << >>
  ELSE Texts(Head(bs).queue_data.messages) \o BatchTexts(Tail(bs))

\* only the first buffered message carries the timestamp prefix
FirstAlonePrefixed(msgs) ==
  \A i \in DOMAIN msgs : (msgs[i].prefix # NoPrefix) <=> (i = 1)

\* every message arrived less than the debounce window after the previous
Burst(es) == \A i \in 2..Len(es) : es[i].at - es[i-1].at < QUEUE_TIMEOUT

\* C1 (Coalescing): when all messages enqueued for a key so far arrived
\* less than the debounce window after one another, the key has been
\* flushed at most once; if it has, the batch holds all of them in arrival
\* order with the timestamp prefix on the first alone and nothing is left
\* buffered; if it has not, all of them are buffered in arrival order, the
\* first alone prefixed, and the registered timer that will flush them is
\* pending for a full window after the last message.
C1_Coalescing ==
  \A k \in KeysSeen :
    LET es == EnqOf(k)
        bs == BatchesOf(k)
    IN Burst(es) =>
         /\ Len(bs) <= 1
         /\ Len(bs) = 1 =>
              /\ k \notin DOMAIN message_queues
              /\ Texts(bs[1].queue_data.messages) = Ids(es)
              /\ FirstAlonePrefixed(bs[1].queue_data.messages)
         /\ Len(bs) = 0 =>
              /\ k \in DOMAIN message_queues
              /\ Texts(message_queues[k].messages) = Ids(es)
              /\ FirstAlonePrefixed(message_queues[k].messages)
              /\ k \in DOMAIN queue_timers
              /\ queue_timers[k] \in DOMAIN timers
              /\ ~timers[queue_timers[k]].cancelled
              /\ timers[queue_timers[k]].fire_at
                   = es[Len(es)].at + QUEUE_TIMEOUT

C1_Witness ==
  \E k \in KeysSeen :
    /\ Burst(EnqOf(k))
    /\ Len(EnqOf(k)) >= 3
    /\ Len(BatchesOf(k)) = 1

\* the messages of key k among the first n enqueues
TextsBefore(k, n) ==
  Ids(SelectSeq(SubSeq(enqueued, 1, n), LAMBDA e : e.key = k))

\* the batches of key k among the first i batches
BatchesUpTo(k, i) == SelectSeq(SubSeq(flushed, 1, i), LAMBDA b : b.key = k)

NoDoublePop ==
  LET all == BatchTexts(flushed) IN
  \A i, j \in DOMAIN all : all[i] = all[j] => i = j

\* C3 (Idempotent removal): a flush trigger that finds its key absent ends
\* at once: it changes neither the queue store nor the timer map, does not
\* take the lock and starts no processing (so no responder is invoked); and
\* no queue is popped twice.
C3_IdempotentRemoval ==
  [][ /\ flushed' # flushed => NoDoublePop'
      /\ \A t \in DOMAIN timers :
           ( /\ timers[t].state = "waiting"
             /\ timers[t].key \notin DOMAIN message_queues
             /\ (t \notin DOMAIN timers' \/ timers'[t].state # "waiting") )
           => /\ UNCHANGED <<message_queues, queue_timers, queue_lock,
                             flush_local, flushed>>
              /\ t \notin DOMAIN timers' ]_vars

\* a trigger was a no-op for a queue that another trigger popped
C3_Witness ==
  \E t \in skipped : \E i \in DOMAIN flushed :
    /\ flushed[i].by # t
    /\ \E j \in DOMAIN flushed[i].queue_data.messages :
         flushed[i].queue_data.messages[j].text = t

\* C4 (Isolation of batches): every message of a flushed batch was enqueued
\* under the key of that batch.
C4_Isolation ==
  \A i \in DOMAIN flushed :
    \A j \in DOMAIN flushed[i].queue_data.messages :
      enqueued[flushed[i].queue_data.messages[j].text].key = flushed[i].key

\* enqueues on two keys interleaved, and both keys flushed
C4_Witness ==
  /\ \E i, j, l \in DOMAIN enqueued :
       /\ i < j /\ j < l
       /\ enqueued[i].key = enqueued[l].key
       /\ enqueued[i].key # enqueued[j].key
  /\ \E i, j \in DOMAIN flushed : flushed[i].key # flushed[j].key

\* timers of key k that are armed or running and on which cancel() has not
\* been called
LiveTimers(k) ==
  { t \in DOMAIN timers : timers[t].key = k /\ ~timers[t].cancelled }

\* C5: at most one live debounce timer per key (the queue store is a
\* mapping, so it holds at most one entry per key).
C5_OneLiveTimerPerKey ==
  \A k \in KeysSeen : Cardinality(LiveTimers(k)) <= 1

\* countdown timers that are armed or running their callback and on which
\* cancel() has not been called
LiveCountdowns ==
  { c \in DOMAIN cds :
      cds[c].state \in {"armed", "running"} /\ ~cds[c].cancelled }

\* C6: the idle countdown has at most one live timer.
C6_OneLiveCountdown == Cardinality(LiveCountdowns) <= 1

\* C7 (Arrival order): for every key, the texts of its batches in flush
\* order followed by the texts still buffered are in the order of their
\* enqueues.
C7_ArrivalOrder ==
  \A k \in KeysSeen :
    LET all == BatchTexts(BatchesOf(k)) \o
               (IF k \in DOMAIN message_queues
                  THEN Texts(message_queues[k].messages) ELSE << >>)
    IN \A i, j \in DOMAIN all : i < j => all[i] < all[j]

C7_Witness ==
  \E k \in KeysSeen :
    /\ Len(BatchesOf(k)) >= 2
    /\ \E i \in DOMAIN BatchesOf(k) :
         Len(BatchesOf(k)[i].queue_data.messages) >= 2

\* C8: while a flush is in link extraction, classification or a responder
\* call, the queue-store lock is free.
C8_LockFreeDuringIO ==
  \A t \in DOMAIN timers :
    timers[t].state \in {"extract", "classify", "respond"}
      => queue_lock = NoTimer

\* C9: a trigger that has fired for a key whose window has elapsed is not
\* kept waiting by the flush of another key.
C9_NotBlockedByOtherKey ==
  \A t \in DOMAIN timers :
    ( /\ timers[t].state = "waiting"
      /\ timers[t].key \in DOMAIN message_queues
      /\ ~TooEarly(message_queues[timers[t].key].last_update) )
    => ~( /\ queue_lock # NoTimer
          /\ timers[queue_lock].key # timers[t].key )

\* the quiet window of the configuration, which spans midnight
QuietWindow(t) ==
  t >= strptime(quiet_time_start) \/ t <= strptime(quiet_time_end)

\* positions inside start_countdown
SCPcs == {"sc_cancel", "sc_create", "sc_daemon", "sc_start"}

\* no thread is inside start_countdown
NoStartInProgress ==
  /\ listener.pc \notin SCPcs
  /\ \A c \in DOMAIN cds : ~(cds[c].state = "running" /\ cds[c].pc \in SCPcs)

\* C10 (Quiet-hours suppression): no step of auto_send_message run at a
\* time inside the quiet window, its first included, enqueues a message, changes the queue store
\* or the timer map or changes unanswered_count; after the quiet check it
\* goes to start_countdown, and when it ends, with no other start_countdown
\* in progress, the current countdown timer is armed.
C10_QuietSuppression ==
  [][ \A c \in DOMAIN cds :
        ( /\ cds[c].state \in {"armed", "running"}
          /\ cds'[c].clock # NoTime
          /\ QuietWindow(cds'[c].clock)
          /\ (cds'[c].pc # cds[c].pc \/ cds'[c].state # cds[c].state) )
        => /\ UNCHANGED <<message_queues, queue_timers, enqueued,
                          unanswered_count>>
           /\ cds'[c].pc \notin {"choose", "enqueue"}
           /\ (cds'[c].state = "finished" /\ NoStartInProgress')
                => /\ countdown_timer' # NoTimer
                   /\ cds'[countdown_timer'].state = "armed"
                   /\ is_countdown_running' ]_vars

\* auto_send_message ran at 23:30 and returned
C10_Witness ==
  \E c \in DOMAIN cds :
    /\ cds[c].clock = 84600
    /\ cds[c].pc = "returned"
    /\ countdown_timer # c
    /\ cds[countdown_timer].state = "armed"

\* the current countdown timer is armed
CountdownArmed ==
  /\ countdown_timer # NoTimer
  /\ cds[countdown_timer].state = "armed"

\* C11: a run of auto_send_message outside the quiet window with a
\* non-empty listen_list enqueues, when add_to_queue returns, exactly one
\* message: to a member of listen_list, with sender and username "System"
\* and is_group False, stored under the key chat_id; no other step of the
\* run enqueues; after the enqueue it goes to start_countdown, and when it
\* returns, with no other start_countdown in progress, the current
\* countdown timer is armed.
C11_OutreachOnSend ==
  [][ \A c \in DOMAIN cds :
        ( /\ cds[c].state \in {"armed", "running"}
          /\ cds'[c].branch = "send"
          /\ (cds'[c].pc # cds[c].pc \/ cds'[c].state # cds[c].state) )
        => /\ IF cds[c].pc = "enqueue"
                THEN /\ Len(enqueued') = Len(enqueued) + 1
                     /\ SubSeq(enqueued', 1, Len(enqueued)) = enqueued
                     /\ LET e == enqueued'[Len(enqueued')] IN
                          /\ \E i \in DOMAIN listen_list :
                               e.chat_id = listen_list[i]
                          /\ e.sender_name = "System"
                          /\ e.username = "System"
                          /\ ~e.is_group
                          /\ e.key = e.chat_id
                          /\ e.key \in DOMAIN message_queues'
                          /\ LET ms == message_queues'[e.key].messages
                             IN ms[Len(ms)].text = e.id
                     /\ cds'[c].pc = "sc_cancel"
                ELSE enqueued' = enqueued
           /\ cds'[c].pc = "enqueue" => cds[c].pc = "choose"
           /\ (cds'[c].state = "finished" /\ NoStartInProgress')
                => CountdownArmed' ]_vars

\* auto_send_message ran at 12:00, enqueued its message and returned with
\* the countdown armed
C11_Witness ==
  \E c \in DOMAIN cds :
    /\ cds[c].clock = 43200
    /\ cds[c].branch = "send"
    /\ cds[c].pc = "returned"
    /\ \E i \in DOMAIN enqueued : enqueued[i].sender_name = "System"
    /\ NoStartInProgress
    /\ CountdownArmed

\* C12 (Idle reset): when handle_wxauto_message has handled an inbound
\* message, unanswered_count is 0.
C12_IdleReset ==
  [][ (listener.pc = "enqueue" /\ listener'.pc = "idle")
        => unanswered_count' = 0 ]_vars

\* C13: an outreach message is never enqueued less than min_seconds after
\* an inbound message was handled (enqueued by the listener).
C13_InboundPostponesOutreach ==
  \A i, j \in DOMAIN enqueued :
    ( /\ j < i
      /\ enqueued[j].sender_name # "System"
      /\ enqueued[i].sender_name = "System" )
    => enqueued[i].at >= enqueued[j].at + min_seconds

\* no thread is inside auto_send_message or start_countdown
Quiescent ==
  /\ NoStartInProgress
  /\ \A c \in DOMAIN cds : cds[c].state # "running"

\* C14: auto_send_message ends, on every path (quiet hours, empty
\* listen_list, message enqueued, enqueue failure), inside the
\* start_countdown it calls last; and whenever the countdown has been
\* started, stop() has not been called and no thread is inside
\* auto_send_message or start_countdown, the current countdown timer is
\* armed.
C14_NeverSilentlyStops ==
  [][ /\ \A c \in DOMAIN cds :
           (cds[c].state = "running" /\ cds'[c].state = "finished")
             => /\ cds[c].pc \in {"sc_daemon", "sc_start"}
                /\ cds[c].branch \in {"quiet", "empty", "send", "except"}
      /\ (nextCd' > 1 /\ Quiescent' /\ ~stopped') => CountdownArmed' ]_vars

\* auto_send_message has ended on the empty-list path and on the
\* enqueue-failure path, and the countdown is armed
C14_Witness ==
  /\ Quiescent
  /\ CountdownArmed
  /\ \E c \in DOMAIN cds :
       /\ cds[c].state = "finished"
       /\ cds[c].pc = "returned"
       /\ cds[c].branch \in {"empty", "except"}

\* C15: once stop() has returned, no countdown timer is live.
C15_StopIsTerminal == stopped => LiveCountdowns = {}

\* C16: once the shutdown path of main() has run, stop() has been invoked
\* on the idle scheduler and no debounce timer and no idle countdown timer
\* is live.
C16_ShutdownCancelsAll ==
  stop_event =>
    /\ stopped
    /\ LiveCountdowns = {}
    /\ \A k \in KeysSeen : LiveTimers(k) = {}

\* the urls a queue holds after its messages msgs: the whole list found in
\* the first message, then the first URL of each later message with a link
RECURSIVE ExpectedUrls(_)
ExpectedUrls(msgs) ==
  IF msgs = << >> THEN << >>
  ELSE LET e == enqueued[msgs[Len(msgs)].text]
           before == ExpectedUrls(SubSeq(msgs, 1, Len(msgs) - 1))
       IN IF ~e.has_link THEN before
          ELSE IF Len(msgs) = 1 THEN e.urls
          ELSE Append(before, e.urls[1])

LinksAccumulated(q) ==
  /\ q.has_link =
       (\E j \in DOMAIN q.messages : enqueued[q.messages[j].text].has_link)
  /\ q.urls = ExpectedUrls(q.messages)

\* C17 (Link accumulation): in every buffered queue and every flushed
\* batch, has_link is the OR of the has_link flags of its enqueues, and urls
\* holds what the first enqueue stored followed by exactly the first
\* detected URL of each later link-bearing enqueue; so a message without a
\* link followed by one with URL u gives has_link true and urls = [u].
C17_LinkAccumulation ==
  /\ \A k \in DOMAIN message_queues : LinksAccumulated(message_queues[k])
  /\ \A i \in DOMAIN flushed : LinksAccumulated(flushed[i].queue_data)

\* a flushed batch of a message without a link followed by one with the
\* URLs u, v
C17_Witness ==
  \E i \in DOMAIN flushed :
    LET q == flushed[i].queue_data IN
    /\ Len(q.messages) = 2
    /\ ~enqueued[q.messages[1].text].has_link
    /\ enqueued[q.messages[2].text].urls = <<"u", "v">>
    /\ q.has_link
    /\ q.urls = <<"u">>

\* the senders of the messages held by queue_data q
SendersOf(q) ==
  { enqueued[q.messages[j].text].sender_name : j \in DOMAIN q.messages }

\* the calls whose messages queue_data q holds were all made for the
\* conversation q is stored for, under key k
HoldsOnlyKey(q, k) ==
  \A j \in DOMAIN q.messages : enqueued[q.messages[j].text].key = k

\* C18 (Key resolution): the key of a group call is made of chat_id and
\* sender_name (joined by "_"), so calls of one group with different
\* senders get different keys and their messages are never held by the same
\* queue; the key of a non-group call is chat_id whatever the
\* sender; equal arguments always give the same key (pure), and every call
\* gets a key under which its message is stored (total).
C18_KeyResolution ==
  /\ \A i \in DOMAIN enqueued :
       LET e == enqueued[i] IN
       /\ e.is_group => e.key = e.chat_id \o "_" \o e.sender_name
       /\ ~e.is_group => e.key = e.chat_id
       /\ \A j \in DOMAIN enqueued :
            LET f == enqueued[j] IN
            /\ (e.chat_id = f.chat_id /\ e.sender_name = f.sender_name
                  /\ e.is_group = f.is_group) => e.key = f.key
            /\ (e.is_group /\ f.is_group /\ e.chat_id = f.chat_id
                  /\ e.sender_name # f.sender_name) => e.key # f.key
  /\ \A k \in DOMAIN message_queues :
       LET q == message_queues[k] IN
       /\ HoldsOnlyKey(q, k)
       /\ q.is_group => Cardinality(SendersOf(q)) = 1
  /\ \A i \in DOMAIN enqueued :
       LET e == enqueued[i] IN
       /\ e.key \in DOMAIN message_queues
       /\ \E j \in DOMAIN message_queues[e.key].messages :
            message_queues[e.key].messages[j].text = e.id

\* two members of the group g hold a queue each while the private chat u1
\* holds one queue with the messages of two senders
C18_Witness ==
  /\ {"g_u1", "g_u2", "u1"} \subseteq DOMAIN message_queues
  /\ SendersOf(message_queues["g_u1"]) = {"u1"}
  /\ SendersOf(message_queues["g_u2"]) = {"u2"}
  /\ SendersOf(message_queues["u1"]) = {"u1", "System"}

\* the flushes ended by an exception that reached the except clause of
\* _process_message_queue
Aborted == { t \in DOMAIN failed : failed[t].raised }

\* the place in flushed of the batch popped by timer t
FlushIndex(t) == CHOOSE i \in DOMAIN flushed : flushed[i].by = t

\* the calls made for the key of the aborted flush t after its pop
LaterCalls(t) ==
  { j \in DOMAIN enqueued :
      j > flushed[FlushIndex(t)].seen /\ enqueued[j].key = failed[t].key }

\* the first message enqueued after the aborted flush t is the head of a
\* fresh queue that waits under a live timer not older than the message, or
\* it is the head of a later batch popped by such a timer once the window
\* of the batch had elapsed
Recovered(t) ==
  LET k == failed[t].key
      first == CHOOSE j \in LaterCalls(t) : \A x \in LaterCalls(t) : j <= x
  IN \/ /\ k \in DOMAIN message_queues
        /\ message_queues[k].messages[1] =
             [prefix |-> enqueued[first].at, text |-> first]
        /\ k \in DOMAIN queue_timers
        /\ queue_timers[k] >= first
        /\ queue_timers[k] \in DOMAIN timers
        /\ timers[queue_timers[k]].state \in {"armed", "waiting"}
     \/ \E b \in DOMAIN flushed :
          /\ b > FlushIndex(t)
          /\ flushed[b].key = k
          /\ flushed[b].queue_data.messages[1] =
               [prefix |-> enqueued[first].at, text |-> first]
          /\ flushed[b].by >= first
          /\ flushed[b].at >=
               flushed[b].queue_data.last_update + QUEUE_TIMEOUT - JITTER

\* C19 (Flush failure policy): the step by which an exception ends a flush
\* leaves the key of the batch absent from message_queues and from
\* queue_timers, queue_lock free and every other timer as it was; and after
\* it the next message for that key starts a fresh queue under a new timer
\* and is popped by the normal trigger.
C19_FlushFailurePolicy ==
  [][ /\ \A t \in Aborted' \ Aborted :
           /\ failed'[t].key \notin DOMAIN message_queues'
           /\ failed'[t].key \notin DOMAIN queue_timers'
           /\ queue_lock' = NoTimer
           /\ t \notin DOMAIN timers'
           /\ \A u \in DOMAIN timers \ {t} :
                u \in DOMAIN timers' /\ timers'[u] = timers[u]
      /\ \A t \in Aborted' : LaterCalls(t)' # {} => Recovered(t)'
    ]_vars

\* a flush was aborted by an exception, and the next message for the key
\* was later popped alone by its own timer in a flush that completed
C19_Witness ==
  \E t \in Aborted : \E b \in DOMAIN flushed :
    /\ b > FlushIndex(t)
    /\ flushed[b].key = failed[t].key
    /\ Len(flushed[b].queue_data.messages) = 1
    /\ flushed[b].queue_data.messages[1].text = flushed[FlushIndex(t)].seen + 1
    /\ flushed[b].by = flushed[FlushIndex(t)].seen + 1
    /\ flushed[b].by \notin DOMAIN timers
    /\ flushed[b].by \notin DOMAIN failed

\* C20: a flush in which a collaborator failed (link extraction, a
\* classifier, a responder's API call, a media send) has sent nothing
\* through the chat transport.
C20_FailedFlushSilent ==
  \A t \in DOMAIN failed : failed[t].sent = << >>

\* C21: no exception leaves a timer callback: every thread of the idle
\* countdown ends by returning from auto_send_message (the debounce
\* callback ends by FlushEnd or by a return inside its try block).
C21_CallbackFailuresContained == escaped = {}

\* C22: a flush trigger that finds its queue pops it if and only if at least
\* QUEUE_TIMEOUT - JITTER has elapsed since the queue's last_update;
\* otherwise it returns, leaving the queue, the timer map, the lock and the
\* flushes in progress as they were (no responder is reached).
C22_PopOnlyAfterWindow ==
  [][ \A t \in DOMAIN timers :
        LET k == timers[t].key IN
        ( /\ timers[t].state = "waiting"
          /\ k \in DOMAIN message_queues
          /\ (t \notin DOMAIN timers' \/ timers'[t].state # "waiting") )
        => IF now - message_queues[k].last_update >= QUEUE_TIMEOUT - JITTER
             THEN /\ k \notin DOMAIN message_queues'
                  /\ Len(flushed') = Len(flushed) + 1
                  /\ flushed'[Len(flushed')].by = t
                  /\ flushed'[Len(flushed')].queue_data = message_queues[k]
             ELSE /\ UNCHANGED <<message_queues, queue_timers, queue_lock,
                                 flush_local, flushed>>
                  /\ t \notin DOMAIN timers'
                  /\ t \in deferred' ]_vars

\* a trigger has deferred: the message that armed it is still buffered and
\* the timer registered for its key is armed; and a queue has been popped
\* once its window had elapsed
C22_Witness ==
  /\ \E t \in deferred :
       LET k == enqueued[t].key IN
       /\ k \in DOMAIN message_queues
       /\ \E j \in DOMAIN message_queues[k].messages :
            message_queues[k].messages[j].text = t
       /\ k \in DOMAIN queue_timers
       /\ queue_timers[k] \in DOMAIN timers
       /\ timers[queue_timers[k]].state = "armed"
  /\ \E i \in DOMAIN flushed :
       flushed[i].at - flushed[i].queue_data.last_update
         >= QUEUE_TIMEOUT - JITTER

\* C23: the step that pops a queue takes the lock and removes the queue
\* entry and the timer handle of the key together; and whenever the lock is
\* free the keys with a queue entry are the keys with a registered timer
\* handle.
C23_StoreAndTimerMapAgree ==
  [][ /\ Len(flushed') > Len(flushed) =>
           LET k == flushed'[Len(flushed')].key IN
           /\ queue_lock = NoTimer /\ queue_lock' # NoTimer
           /\ k \in DOMAIN message_queues /\ k \in DOMAIN queue_timers
           /\ k \notin DOMAIN message_queues'
           /\ k \notin DOMAIN queue_timers'
      /\ queue_lock' = NoTimer =>
           /\ DOMAIN message_queues' = DOMAIN queue_timers'
           /\ \A k \in DOMAIN queue_timers' : queue_timers'[k] # NoTimer
    ]_vars

\* the lock is free after the flush of one key while the other key holds a
\* queue and a timer handle
C23_Witness ==
  /\ queue_lock = NoTimer
  /\ \E i \in DOMAIN flushed :
       /\ flushed[i].key \notin DOMAIN message_queues
       /\ flushed[i].by \notin DOMAIN timers
  /\ \E k \in DOMAIN message_queues : k \in DOMAIN queue_timers

\* C24: whenever the countdown has been started and no thread is inside
\* start_countdown or auto_send_message, exactly one countdown timer is
\* live, it is the one held in countdown_timer, and countdown_end_time is
\* the time at which it expires.
C24_CountdownStateSerialized ==
  (nextCd > 1 /\ Quiescent) =>
    /\ LiveCountdowns = {countdown_timer}
    /\ cds[countdown_timer].fire_at = countdown_end_time

\* the runs of auto_send_message made so far, under a configuration that
\* strptime accepts
Fired ==
  { c \in DOMAIN cds :
      /\ cds[c].clock # NoTime
      /\ strptime_ok(quiet_time.start) /\ strptime_ok(quiet_time.end) }

\* C25 (Quiet-hours policy): for every configured start and end and every
\* time of day at which auto_send_message runs, the run is suppressed iff,
\* when start > end, current >= start or current <= end, and otherwise
\* start <= current <= end.
C25_QuietHoursPolicy ==
  \A c \in Fired :
    LET start == strptime(quiet_time.start)
        end == strptime(quiet_time.end)
        current == cds[c].clock
    IN (cds[c].branch = "quiet") <=>
         ((start > end /\ (current >= start \/ current <= end))
            \/ (start <= end /\ start <= current /\ current <= end))

\* runs were suppressed at 08:00 sharp, the end of the window 22:00-08:00,
\* and let through one second later
C25_Witness ==
  /\ quiet_time = [start |-> <<22, 0>>, end |-> <<8, 0>>]
  /\ \E c \in Fired : cds[c].clock = 28800 /\ cds[c].branch = "quiet"
  /\ \E c \in Fired : cds[c].clock = 28801 /\ cds[c].branch # "quiet"

\* the runs of auto_send_message made so far under a configuration that
\* strptime rejects
FiredMalformed ==
  { c \in DOMAIN cds :
      /\ cds[c].clock # NoTime
      /\ ~(strptime_ok(quiet_time.start) /\ strptime_ok(quiet_time.end)) }

\* C26 (fail open): when quiet_time cannot be evaluated, a run of
\* auto_send_message is not suppressed, no exception leaves it, and it takes
\* the sending path (target choice, enqueue, re-arm).
C26_QuietHoursFailOpen ==
  \A c \in FiredMalformed :
    /\ cds[c].branch \in {"send", "except"}
    /\ cds[c].pc \in {"choose", "enqueue", "sc_cancel", "sc_create",
                      "sc_daemon", "sc_start", "returned"}
    /\ c \notin escaped

\* under a malformed configuration a run has enqueued its message and
\* returned with the countdown re-armed
C26_Witness ==
  \E c \in FiredMalformed :
    /\ cds[c].pc = "returned"
    /\ cds[c].branch = "send"
    /\ \E i \in DOMAIN enqueued : enqueued[i].sender_name = "System"
    /\ CountdownArmed

\* C27: a run of auto_send_message outside the quiet window with an empty
\* listen_list enqueues nothing and changes neither the queue store, the
\* timer map nor unanswered_count in any of its steps, goes from the
\* listen_list test straight to start_countdown, and when it has ended with
\* no other start_countdown in progress the current countdown timer is
\* armed.
C27_EmptyListRearmsOnly ==
  [][ \A c \in DOMAIN cds :
        ( /\ cds[c].state \in {"armed", "running"}
          /\ cds'[c].branch = "empty"
          /\ (cds'[c].pc # cds[c].pc \/ cds'[c].state # cds[c].state) )
        => /\ enqueued' = enqueued
           /\ UNCHANGED <<message_queues, queue_timers, unanswered_count>>
           /\ cds[c].state = "armed" => cds'[c].pc = "sc_cancel"
           /\ cds'[c].pc \notin {"choose", "enqueue"}
           /\ (cds'[c].state = "finished" /\ NoStartInProgress')
                => CountdownArmed' ]_vars

\* with an empty listen_list auto_send_message ran at 12:00 and returned
\* with a new countdown armed, nothing enqueued and nothing counted
C27_Witness ==
  /\ listen_list = << >>
  /\ enqueued = << >>
  /\ unanswered_count = 0
  /\ NoStartInProgress
  /\ CountdownArmed
  /\ \E c \in DOMAIN cds :
       /\ cds[c].clock = 43200
       /\ cds[c].branch = "empty"
       /\ cds[c].pc = "returned"
       /\ countdown_timer # c

\* the outreach messages enqueued so far
Produced == { i \in DOMAIN enqueued : enqueued[i].sender_name = "System" }

\* C28: whenever no run of auto_send_message is between its increment and
\* its add_to_queue, unanswered_count equals the number of runs that
\* enqueued an outreach message (nothing resets the counter in these
\* behaviours), so a run whose add_to_queue failed is not counted.
C28_CountsProducedOnly ==
  (\A c \in DOMAIN cds : ~(cds[c].state = "running" /\ cds[c].pc = "enqueue"))
    => unanswered_count = Cardinality(Produced)

\* C29: the text a run of auto_send_message builds for add_to_queue is the
\* configured text plus an instruction, and carries one number, the value
\* of unanswered_count after this run's increment; the run passes that
\* text to add_to_queue unchanged.
C29_OutreachCarriesAttempt ==
  [][ \A c \in DOMAIN cds :
        /\ (cds[c].pc = "choose" /\ cds'[c].pc = "enqueue")
             => /\ cds'[c].reply_content.template = auto_message_content
                /\ cds'[c].reply_content.instruction # ""
                /\ cds'[c].reply_content.fields = << unanswered_count' >>
        /\ (cds[c].pc = "enqueue" /\ cds'[c].pc # "enqueue")
             => cds'[c].reply_content = cds[c].reply_content ]_vars

\* C30 (Link enrichment): the link step of a flush never ends the flush:
\* whether extract_web_content returns content, returns nothing or raises,
\* the flush goes on to the classifiers with its batch as popped, and the
\* text handed on is the combined text alone, or followed by the extracted
\* content when there is some.
C30_LinkEnrichmentDegrades ==
  [][ \A t \in DOMAIN timers :
        ( /\ timers[t].state = "extract"
          /\ (t \notin DOMAIN timers' \/ timers'[t].state # "extract") )
        => /\ t \in DOMAIN timers'
           /\ timers'[t].state = "classify"
           /\ t \notin DOMAIN failed'
           /\ flush_local'[t].queue_data = flush_local[t].queue_data
           /\ flush_local'[t].web \in
                {<< >>, << flush_local[t].queue_data.urls[1] >>} ]_vars

\* the flushes that have called their responder
Dispatched ==
  { t \in DOMAIN flush_local : timers[t].state = "respond" }

\* the responder called for flush t got the metadata stored in the queue
CallMatchesQueue(t) ==
  LET f == flush_local[t] IN
  /\ Len(f.calls) = 1
  /\ f.calls[1].responder = f.responder
  /\ f.calls[1].chat_id = f.queue_data.chat_id
  /\ f.calls[1].sender_name = f.queue_data.sender_name
  /\ f.calls[1].username = f.queue_data.username
  /\ f.calls[1].is_group = f.queue_data.is_group
  /\ f.queue_data = flushed[Len(flushed)].queue_data

Metadata(q) ==
  <<q.chat_id, q.sender_name, q.username, q.is_group, q.is_image_recognition>>

\* C32: a queue that stays in the store keeps the chat_id, sender_name,
\* username, is_group and is_image_recognition it was created with; a step
\* that changes it is an enqueue, which appends one message and may change
\* last_update, has_link and urls only.
C32_MetadataImmutable ==
  [][ \A k \in DOMAIN message_queues \cap DOMAIN message_queues' :
        LET q == message_queues[k]
            r == message_queues'[k]
        IN /\ Metadata(r) = Metadata(q)
           /\ r # q => /\ Len(enqueued') = Len(enqueued) + 1
                       /\ enqueued'[Len(enqueued')].key = k
                       /\ Len(r.messages) = Len(q.messages) + 1
                       /\ SubSeq(r.messages, 1, Len(q.messages)) = q.messages
                       /\ r.last_update >= q.last_update ]_vars

\* a queue created by a text of the contact holds a recognised image and
\* an outreach message and still has the metadata of the first message
C32_Witness ==
  \E k \in DOMAIN message_queues :
    LET q == message_queues[k] IN
    /\ Len(q.messages) = 3
    /\ q.sender_name = "u1" /\ q.username = "u1"
    /\ ~q.is_image_recognition
    /\ enqueued[q.messages[2].text].is_image_recognition
    /\ enqueued[q.messages[3].text].sender_name = "System"

NextSerial ==
  \/ Tick
  \/ MainStart
  \/ /\ NoStartInProgress
     /\ \E a \in Callers : ListenerReceive(a, << >>)
  \/ ListenerSCCreate
  \/ ListenerSCDaemon
  \/ ListenerSCStart
  \/ ListenerEnqueue
  \/ \E c \in DOMAIN cds : \E current_time \in WallClocks :
       /\ FireBranch(current_time) = "send" \/ NoStartInProgress
       /\ CountdownFires(c, current_time)
  \/ \E c \in DOMAIN cds : FireChoose(c)
  \/ \E c \in DOMAIN cds : NoStartInProgress /\ FireEnqueue(c)
  \/ \E c \in DOMAIN cds : NoStartInProgress /\ FireEnqueueFails(c)
  \/ \E c \in DOMAIN cds : FireSCCancel(c)
  \/ \E c \in DOMAIN cds : FireSCCreate(c)
  \/ \E c \in DOMAIN cds : FireSCDaemon(c)
  \/ \E c \in DOMAIN cds : FireSCStart(c)
  \/ \E t \in DOMAIN timers : _process_message_queue(t)

\* the whole bot in the behaviours in which start_countdown has a single
\* caller at a time: a thread enters it only when no other thread is inside
SpecSerial == Init /\ [][NextSerial]_vars

\* C33: when start_countdown returns, having had a single caller, the timer
\* it created is armed and is the only live countdown timer (the previous
\* one is cancelled), it expires at countdown_end_time,
\* is_countdown_running is set, and countdown_end_time lies between
\* min_seconds and max_seconds after the present.
C33_StartArmsOneCountdown ==
  [][ ( \/ nextCd = 1 /\ nextCd' = 2
        \/ listener.pc = "sc_start" /\ listener'.pc = "enqueue"
        \/ \E c \in DOMAIN cds :
             cds[c].pc = "sc_start" /\ cds'[c].pc = "returned" )
      => /\ countdown_timer' # NoTimer
         /\ cds'[countdown_timer'].state = "armed"
         /\ LiveCountdowns' = {countdown_timer'}
         /\ cds'[countdown_timer'].fire_at = countdown_end_time'
         /\ is_countdown_running'
         /\ min_seconds <= countdown_end_time' - now'
         /\ countdown_end_time' - now' <= max_seconds ]_vars

\* start_countdown, called for an inbound message, has cancelled an armed
\* countdown and returned with a new one armed
C33_Witness ==
  /\ listener.pc = "enqueue"
  /\ LiveCountdowns = {countdown_timer}
  /\ countdown_end_time - now \in min_seconds..max_seconds
  /\ \E c \in DOMAIN cds :
       /\ c # countdown_timer
       /\ cds[c].cancelled
       /\ cds[c].state = "finished"
       /\ cds[c].pc = "none"

\* message i is held by a popped batch
InBatch(i) ==
  \E b \in DOMAIN flushed :
    \E j \in DOMAIN flushed[b].queue_data.messages :
      flushed[b].queue_data.messages[j].text = i

\* C34 (liveness): under FairQueue, again and again every message enqueued
\* so far is in a popped batch and message_queues is empty: so every
\* enqueued message is eventually popped (the callers make finitely many
\* calls, so the traffic of every key pauses) and no queue stays in the
\* store forever.
C34_EveryMessageFlushed ==
  []<>( /\ \A i \in DOMAIN enqueued : InBatch(i)
        /\ message_queues = << >> )

\* a trigger deferred, and the two messages it left in the queue were
\* popped together by a later timer
C34_Witness ==
  \E b \in DOMAIN flushed :
    /\ Len(flushed[b].queue_data.messages) = 2
    /\ flushed[b].by = flushed[b].queue_data.messages[2].text
    /\ flushed[b].queue_data.messages[1].text \in deferred
    /\ message_queues = << >>

\* the texts buffered for key k
Buffered(k) ==
  IF k \in DOMAIN message_queues
    THEN Texts(message_queues[k].messages) ELSE << >>

\* C35 (conservation): for every key, the messages of its popped batches in
\* pop order followed by the messages buffered for it are exactly the
\* messages enqueued for it, in order: none is dropped, duplicated or popped
\* twice.
C35_Conservation ==
  \A k \in KeysSeen :
    BatchTexts(BatchesOf(k)) \o Buffered(k) = Ids(EnqOf(k))

\* a stale timer of a key popped a batch of two messages, the timer of the
\* second message then fired and deferred, and a later message of the key
\* is buffered
C35_Witness ==
  \E k \in KeysSeen :
    /\ Len(BatchesOf(k)) >= 1
    /\ Len(BatchesOf(k)[1].queue_data.messages) = 2
    /\ BatchesOf(k)[1].by = BatchesOf(k)[1].queue_data.messages[1].text
    /\ BatchesOf(k)[1].queue_data.messages[2].text \in deferred
    /\ Buffered(k) # << >>

\* C36: whenever queue_lock is free, every queue in the store has a
\* registered timer handle whose timer has not been cancelled, has not
\* completed its callback and runs no earlier than last_update +
\* QUEUE_TIMEOUT; and a timer that deferred was not the latest of its key (a
\* later enqueue of the key had armed another), so the queue it left behind
\* has that later timer pending.
C36_RegisteredTimerPending ==
  /\ queue_lock = NoTimer =>
       \A k \in DOMAIN message_queues :
         /\ k \in DOMAIN queue_timers
         /\ queue_timers[k] \in DOMAIN timers
         /\ LET t == timers[queue_timers[k]] IN
              /\ t.key = k
              /\ t.state \in {"armed", "waiting"}
              /\ ~t.cancelled
              /\ t.fire_at >= message_queues[k].last_update + QUEUE_TIMEOUT
  /\ \A t \in deferred :
       \E i \in DOMAIN enqueued : i > t /\ enqueued[i].key = enqueued[t].key

\* a timer deferred and left its queue with the later, registered timer of
\* the key still armed
C36_Witness ==
  \E t \in deferred :
    LET k == enqueued[t].key IN
    /\ queue_lock = NoTimer
    /\ k \in DOMAIN message_queues
    /\ queue_timers[k] > t
    /\ timers[queue_timers[k]].state = "armed"
    /\ now < timers[queue_timers[k]].fire_at

\* sequence p is an initial part of sequence s
IsPrefix(p, s) == Len(p) <= Len(s) /\ SubSeq(s, 1, Len(p)) = p

\* C37: in every queue of the store has_link is true exactly when urls is
\* not empty; and while a queue stays in the store has_link never goes from
\* true to false and urls only grows at its end.
C37_LinkFlagMatchesUrls ==
  [][ \A k \in DOMAIN message_queues' :
        LET r == message_queues'[k] IN
        /\ r.has_link <=> (r.urls # << >>)
        /\ k \in DOMAIN message_queues =>
             /\ message_queues[k].has_link => r.has_link
             /\ IsPrefix(message_queues[k].urls, r.urls) ]_vars

\* a queue whose first message had links and whose last had none still has
\* has_link set and its urls
C37_Witness ==
  \E k \in DOMAIN message_queues :
    LET q == message_queues[k] IN
    /\ Len(q.messages) >= 2
    /\ enqueued[q.messages[1].text].has_link
    /\ ~enqueued[q.messages[Len(q.messages)].text].has_link
    /\ q.has_link
    /\ q.urls = <<"u", "v">>

\* calls e and f belong to different conversations: their chat or their
\* kind differs, or they are group messages of different senders
DifferentConversation(e, f) ==
  \/ e.chat_id # f.chat_id
  \/ e.is_group # f.is_group
  \/ e.is_group /\ f.is_group /\ e.sender_name # f.sender_name

\* C38: two calls of different conversations never get the same key, and
\* so no queue holds messages of two conversations.
C38_KeysInjective ==
  /\ \A i, j \in DOMAIN enqueued :
       DifferentConversation(enqueued[i], enqueued[j])
         => enqueued[i].key # enqueued[j].key
  /\ \A k \in DOMAIN message_queues :
       \A i, j \in DOMAIN message_queues[k].messages :
         ~DifferentConversation(enqueued[message_queues[k].messages[i].text],
                                enqueued[message_queues[k].messages[j].text])

\* message m of a queue came from AutoSendHandler
Synthetic(m) == enqueued[m.text].sender_name = "System"

\* C39: a popped batch is treated as a system message exactly when every
\* message in it is an outreach message, and no batch or buffered queue
\* holds both outreach and human messages.
C39_NoIdentityMerge ==
  /\ \A b \in DOMAIN flushed :
       LET q == flushed[b].queue_data IN
       /\ is_system_message(q) <=>
            (\A j \in DOMAIN q.messages : Synthetic(q.messages[j]))
       /\ \A i, j \in DOMAIN q.messages :
            Synthetic(q.messages[i]) = Synthetic(q.messages[j])
  /\ \A k \in DOMAIN message_queues :
       \A i, j \in DOMAIN message_queues[k].messages :
         Synthetic(message_queues[k].messages[i]) =
           Synthetic(message_queues[k].messages[j])

\* the flushes in progress: callbacks between the pop of a queue and the
\* return of the responder
InFlush ==
  { t \in DOMAIN timers : timers[t].state \in {"extract", "classify", "respond"} }

\* C40: at most one flush is in progress at any instant, over all keys: a
\* flush in progress holds queue_lock from its pop to the return of its
\* responder, and it is the only one.
C40_OneFlushAtATime ==
  /\ Cardinality(InFlush) <= 1
  /\ \A t \in InFlush : queue_lock = t
  /\ DOMAIN flush_local = InFlush

\* the responder of one key is running while the timer of another key,
\* whose window has elapsed, waits for queue_lock
C40_Witness ==
  \E t \in InFlush : \E u \in DOMAIN timers :
    /\ timers[t].state = "respond"
    /\ timers[u].state = "waiting"
    /\ timers[u].key # timers[t].key
    /\ timers[u].key \in DOMAIN message_queues
    /\ ~TooEarly(message_queues[timers[u].key].last_update)
====
